---- MODULE Spec2Model ----
(***************************************************************************)
(* Model of crm_app.py: a Streamlit script that is re-run from the top on  *)
(* every interaction.  One run = load the JSON file, heal the clients in   *)
(* memory, handle at most one submitted form or clicked button, save.      *)
(* The persistent state is the file (store), the session flags and the     *)
(* clock; the in-memory collection lives for one run only and is recorded  *)
(* as it stands when the run's handler has finished.                       *)
(*                                                                         *)
(* Text that the code takes apart (client names and ids, which are glued   *)
(* into the selector entry "name (id)" and split again) is a sequence of   *)
(* one-character strings.  Dates are day numbers; 0 is the empty string.   *)
(***************************************************************************)
EXTENDS Integers, Sequences, FiniteSets, TLC

\* ---------------------------------------------------------------- bounds
MaxClients == 2
MaxTasks == 2
MaxNotes == 2
MaxDay == 2
MaxSteps == 2

\* ------------------------------------------------------- small utilities
Range(s) == {s[i] : i \in 1..Len(s)}

RemoveAt(s, i) == [j \in 1..(Len(s) - 1) |-> IF j < i THEN s[j] ELSE s[j + 1]]

\* next(i for i, x in enumerate(s) if ...), for the set hits of the positions
\* of s that pass the test; 0 stands for None
FirstIndex(hits) ==
    IF hits = {} THEN 0 ELSE CHOOSE i \in hits : \A j \in hits : i <= j

\* code point order of the characters that occur in the bounded names
Ord(ch) ==
    CASE ch = " " -> 32
      [] ch = "(" -> 40
      [] ch = ")" -> 41
      [] ch = "7" -> 55
      [] ch = "8" -> 56
      [] ch = "A" -> 65
      [] ch = "B" -> 66

\* Python's str < str on character sequences
RECURSIVE StrLess(_, _)
StrLess(a, b) ==
    IF b = <<>> THEN FALSE
    ELSE IF a = <<>> THEN TRUE
    ELSE IF Ord(Head(a)) # Ord(Head(b)) THEN Ord(Head(a)) < Ord(Head(b))
    ELSE StrLess(Tail(a), Tail(b))

\* ------------------------------------------------------------ data model
\* The six keys the healing loop looks for.
HealedKeys == {"date_added", "value", "source", "id", "follow_up_date", "tags"}

StatusOptions == {"Lead", "Active", "Inactive"}
SourceOptions == {"Direct", "Referral", "Website", "Social Media", "Event", "Other"}
TagOptions == {"VIP", "New", "Priority", "Follow-up", "Onboarding", "Long-term"}

\* str(uuid.uuid4())[:8]: a random token; the bounded token space
Ids == {<<"7">>, <<"8">>}

\* A client is a JSON object; absent is the set of healed keys it lacks (the
\* record then carries a filler for them).
MkClient(id, name, phone, email, status, date_added, value, source, fu, tags, tasks, notes, absent) ==
    [id |-> id, name |-> name, phone |-> phone, email |-> email, status |-> status,
     date_added |-> date_added, value |-> value, source |-> source,
     follow_up_date |-> fu, tags |-> tags, tasks |-> tasks, notes |-> notes,
     absent |-> absent]

MkTask(desc, completed, priority, due, created) ==
    [task |-> desc, completed |-> completed, priority |-> priority,
     due_date |-> due, created_at |-> created]

MkNote(text, date, id) == [text |-> text, date |-> date, id |-> id]

\* ---------------------------------------------------------- record store
\* What the file crm_data.json can hold:
\*   absent       no file
\*   invalid      not JSON (also a truncated or partial write)
\*   number       a JSON number, true, false or null
\*   string       a JSON string that contains the text clients
\*   object       a JSON object without the key clients
\*   nonseq       a JSON object whose clients is a number or null
\*   clients      a JSON object whose clients is an array of client objects
MkDoc(kind, cs) == [kind |-> kind, clients |-> cs]

\* load_data: what the script gets from the file.
\*   raised: an exception other than JSONDecodeError escapes load_data
\*   dict:   the value returned is a dict, so data.get works
\*   seq:    its clients is a sequence
load_data(s) ==
    CASE s.kind \in {"absent", "invalid", "object"} ->
            [raised |-> FALSE, dict |-> TRUE, seq |-> TRUE, clients |-> <<>>]
      [] s.kind = "number" ->
            \* "clients" not in 5 raises TypeError, which is not caught
            [raised |-> TRUE, dict |-> FALSE, seq |-> FALSE, clients |-> <<>>]
      [] s.kind = "string" ->
            \* "clients" in "...clients..." is a substring test: the str is returned
            [raised |-> FALSE, dict |-> FALSE, seq |-> FALSE, clients |-> <<>>]
      [] s.kind = "nonseq" ->
            [raised |-> FALSE, dict |-> TRUE, seq |-> FALSE, clients |-> <<>>]
      [] s.kind = "clients" ->
            [raised |-> FALSE, dict |-> TRUE, seq |-> TRUE, clients |-> s.clients]

\* The script gets past line 81 (load, data.get, the healing loop).
Starts(s) == LET l == load_data(s) IN ~l.raised /\ l.dict /\ l.seq

\* save_data on a document: what the file holds afterwards when the write
\* succeeds.  raised: the membership test raises (the file is not opened).
save_data(d) ==
    CASE d.kind = "number" -> [raised |-> TRUE, file |-> d]
      [] d.kind = "object" -> [raised |-> FALSE, file |-> MkDoc("clients", <<>>)]
      [] OTHER -> [raised |-> FALSE, file |-> d]

\* save_data({"clients": clients})
Saved(cs) == save_data(MkDoc("clients", cs)).file

\* --------------------------------------------------------------- healing
\* A variant of Heal that stamps date_added with the day of the run whether or
\* not the key is there; a statement about healing has to tell it from Heal.
HealStampingToday(c, newid, day) ==
    [c EXCEPT !.date_added = day,
              !.value = IF "value" \in c.absent THEN 0 ELSE @,
              !.source = IF "source" \in c.absent THEN "Direct" ELSE @,
              !.id = IF "id" \in c.absent \/ c.id = <<>> THEN newid ELSE @,
              !.follow_up_date = IF "follow_up_date" \in c.absent THEN 0 ELSE @,
              !.tags = IF "tags" \in c.absent THEN {} ELSE @,
              !.absent = @ \ HealedKeys]

\* Lines 69-81 on one client; newid is the token uuid4 yields if one is drawn.
Heal(c, newid, day) ==
    [c EXCEPT !.date_added = IF "date_added" \in c.absent THEN day ELSE @,
              !.value = IF "value" \in c.absent THEN 0 ELSE @,
              !.source = IF "source" \in c.absent THEN "Direct" ELSE @,
              !.id = IF "id" \in c.absent \/ c.id = <<>> THEN newid ELSE @,
              !.follow_up_date = IF "follow_up_date" \in c.absent THEN 0 ELSE @,
              !.tags = IF "tags" \in c.absent THEN {} ELSE @,
              !.absent = @ \ HealedKeys]

NeedsId(c) == "id" \in c.absent \/ c.id = <<>>

\* The tokens uuid4 may yield during one pass of the loop: one per client that
\* needs one (the others draw none; they get a fixed filler that Heal ignores).
Mints(cs) ==
    {m \in [1..Len(cs) -> Ids] :
        \A i \in 1..Len(cs) : ~NeedsId(cs[i]) => m[i] = <<"7">>}

HealAll(cs, m, day) == [i \in 1..Len(cs) |-> Heal(cs[i], m[i], day)]

\* ------------------------------------------------- Clients tab: the view
SortKeys == {"Date Added", "Name", "Status", "Value"}

\* Python's order on the status strings of the model
StatusRank(s) ==
    CASE s = "Active" -> 1
      [] s = "Inactive" -> 2
      [] s = "Lead" -> 3
      [] OTHER -> 4

\* a's key is strictly ahead of b's key in sorted(..., key, reverse)
KeyAhead(a, b, sort_by) ==
    CASE sort_by = "Name" -> StrLess(a.name, b.name)
      [] sort_by = "Status" -> StatusRank(a.status) < StatusRank(b.status)
      [] sort_by = "Value" -> a.value > b.value
      [] OTHER -> a.date_added > b.date_added

\* A variant of SortClients that rebinds clients to the sorted leads only, as
\* if the status filter were applied to clients itself; a statement about what
\* the views leave in the collection has to tell it from SortClients.
SortClientsOfLeads(cs, sort_by) ==
    LET shown == SelectSeq(cs, LAMBDA c : c.status = "Lead")
        Ahead(j, i) == \/ KeyAhead(shown[j], shown[i], sort_by)
                       \/ (~KeyAhead(shown[i], shown[j], sort_by) /\ j < i)
        Rank(i) == 1 + Cardinality({j \in 1..Len(shown) : Ahead(j, i)})
    IN  [k \in 1..Len(shown) |-> shown[CHOOSE i \in 1..Len(shown) : Rank(i) = k]]

\* sorted() is stable, also with reverse=True: equal keys keep their order.
SortClients(cs, sort_by) ==
    LET Ahead(j, i) == \/ KeyAhead(cs[j], cs[i], sort_by)
                       \/ (~KeyAhead(cs[i], cs[j], sort_by) /\ j < i)
        Rank(i) == 1 + Cardinality({j \in 1..Len(cs) : Ahead(j, i)})
    IN  [k \in 1..Len(cs) |-> cs[CHOOSE i \in 1..Len(cs) : Rank(i) = k]]

\* str.lower() on the characters that occur in the bounded inputs
Lower(ch) ==
    CASE ch = "A" -> "a"
      [] ch = "B" -> "b"
      [] OTHER -> ch

LowerSeq(s) == [i \in 1..Len(s) |-> Lower(s[i])]

\* q in s, for strings as sequences of characters
Contains(q, s) ==
    \E k \in 0..(Len(s) - Len(q)) : \A i \in 1..Len(q) : s[k + i] = q[i]

\* lines 169-180: the rows of the client table.  The phone and the email of the
\* bounded inputs are one character each.
filtered_clients(cs, search_query, filter_status, filter_tags) ==
    LET q == LowerSeq(search_query)
        found == IF search_query # <<>>
                 THEN SelectSeq(cs, LAMBDA c : \/ Contains(q, LowerSeq(c.name))
                                              \/ Contains(q, LowerSeq(<<c.email>>))
                                              \/ Contains(q, LowerSeq(<<c.phone>>)))
                 ELSE cs
        of_status == IF filter_status # {}
                     THEN SelectSeq(found, LAMBDA c : c.status \in filter_status)
                     ELSE found
    IN  IF filter_tags # {}
        THEN SelectSeq(of_status, LAMBDA c : c.tags \cap filter_tags # {})
        ELSE of_status

\* f"{c['name']} ({c['id']})"
Label(c) == c.name \o <<" ", "(">> \o c.id \o <<")">>

\* s.split(ch)[0]
BeforeFirst(s, ch) ==
    LET i == FirstIndex({pos \in 1..Len(s) : s[pos] = ch})
    IN  IF i = 0 THEN s ELSE SubSeq(s, 1, i - 1)

\* the text after the first ch (the label always holds a "(")
AfterFirst(s, ch) ==
    LET i == FirstIndex({pos \in 1..Len(s) : s[pos] = ch})
    IN  SubSeq(s, i + 1, Len(s))

\* label.split("(")[1].split(")")[0]
ExtractId(label) == BeforeFirst(BeforeFirst(AfterFirst(label, "("), "("), ")")

\* next((c for c in clients if c["id"] == selected_id), None) for the entry of
\* the client at position i of the selector; 0 stands for None
Selected(cs, i) ==
    LET sid == ExtractId(Label(cs[i]))
    IN  FirstIndex({pos \in 1..Len(cs) : cs[pos].id = sid})

\* The edit form of the selected client is built without an exception: the
\* index() lookups find the status and the source, the tags are options,
\* the value is not below min_value.
EditFormRenders(c) ==
    /\ c.status \in StatusOptions
    /\ c.source \in SourceOptions
    /\ c.tags \subseteq TagOptions
    /\ c.value >= 0

\* The Clients tab runs to its end for some entry the user may have selected,
\* so that the code of the later tabs is reached.
ClientsTabPasses(cs) ==
    \/ cs = <<>>
    \/ \E i \in 1..Len(cs) :
          IF Selected(cs, i) = 0 THEN TRUE ELSE EditFormRenders(cs[Selected(cs, i)])

\* ------------------------------------------------------- bounded inputs
Days == 1..MaxDay

NameA == <<"A">>
NameB == <<"B">>
\* a name with a parenthesised part, as in "A(7)"
NameParen == <<"A", "(", "7", ")">>

TaskT1 == MkTask("t", TRUE, "High", 1, 1)
TaskT2 == MkTask("t", FALSE, "Medium", 2, 1)
TaskU == MkTask("u", FALSE, "Low", 1, 1)
\* a stored task without a due date: its entry in all_tasks has due_date ""
\* (day 0, below every date, as "" is below every date string)
TaskV == MkTask("v", FALSE, "High", 0, 1)
NoteN == MkNote("n", 1, <<"7">>)

ClientA == MkClient(<<"7">>, NameA, "p", "e", "Lead", 1, 0, "Direct", 1, {}, <<TaskT1, TaskT2>>, <<NoteN>>, {})
ClientB == MkClient(<<"8">>, NameB, "p", "e", "Active", 1, 100, "Referral", 0, {"VIP"}, <<TaskU, TaskV>>, <<>>, {})
\* another client under the id of ClientA
ClientTwin == [ClientB EXCEPT !.id = <<"7">>]
\* a record of an old version of the file: none of the six healed keys
ClientLegacy == MkClient(<<>>, NameB, "p", "e", "Lead", 0, 0, "", 0, {}, <<>>, <<>>, HealedKeys)
\* "id": "", no value and no tags, the other keys present
ClientNoId == [ClientB EXCEPT !.id = <<>>, !.tasks = <<>>, !.value = 0, !.tags = {},
                              !.absent = {"value", "tags"}]
\* a client added under the name "A(7)"
ClientParen == [ClientB EXCEPT !.name = NameParen, !.tasks = <<>>]
\* a status that is not one of the options
ClientProspect == [ClientB EXCEPT !.status = "Prospect", !.tasks = <<>>]

ClientDocs ==
    {MkDoc("clients", cs) : cs \in
        {<<ClientA, ClientB>>, <<ClientA, ClientTwin>>, <<ClientLegacy>>,
         <<ClientNoId>>, <<ClientProspect>>, <<ClientA, ClientParen>>}}

\* what the file may hold when the program is started
InitialDocs ==
    {MkDoc(k, <<>>) : k \in {"absent", "invalid", "number", "object"}} \cup ClientDocs

\* what the user may upload to Restore Data
UploadDocs ==
    {MkDoc(k, <<>>) : k \in {"number", "string", "object", "nonseq"}}
    \cup {MkDoc("clients", <<ClientA, ClientTwin>>)}

\* what the user may have typed and picked in the search and filter options
SearchQueries == {<<>>, <<"a">>, <<"B">>, <<"p">>}
StatusFilters == {{}, {"Lead"}, {"Inactive"}}
TagFilters == {{}, {"VIP"}}

MkForm(name, phone, email, status, value, source, tags, fu) ==
    [name |-> name, phone |-> phone, email |-> email, status |-> status,
     value |-> value, source |-> source, tags |-> tags, follow_up_date |-> fu]

\* the sidebar form as submitted
AddForms ==
    {MkForm(NameA, "p", "e", "Lead", 0, "Direct", {}, MaxDay),
     MkForm(<<>>, "p", "e", "Lead", 0, "Direct", {}, 1),
     MkForm(NameA, "", "e", "Lead", 0, "Direct", {}, 1),
     MkForm(NameA, "p", "", "Lead", 0, "Direct", {}, 1)}

\* the edit form as submitted
UpdateForms ==
    {MkForm(NameB, "q", "f", "Inactive", 100, "Website", {"New"}, MaxDay)}

TaskForms ==
    {[task |-> "", priority |-> "Medium", due_date |-> 1],
     [task |-> "t", priority |-> "High", due_date |-> 1],
     [task |-> "u", priority |-> "Low", due_date |-> MaxDay]}

NoteTexts == {"", "n"}

\* ----------------------------------------------------------------- state
VARIABLES
    store,                \* the file crm_data.json
    today,                \* datetime.now(), as a day number
    confirm_clear_tasks,  \* st.session_state.confirm_clear_tasks
    confirm_reset,        \* st.session_state.confirm_reset
    clients,              \* the in-memory collection when the last run's handler ended
    last,                 \* what the last run did (history)
    retired,              \* ids of the clients deleted so far (history)
    faults,               \* writing the file can fail (a full disk, a lost permission)
    steps                 \* number of steps so far (runs of the script, days passed)

vars == <<store, today, confirm_clear_tasks, confirm_reset, clients, last, retired, faults, steps>>

\* last.status: done     the handler changed the collection and saved it
\*              rejected the handler changed nothing (validation, no match)
\*              failed   the handler's save raised
\*              none     the run had no handler (a plain re-run), or crashed
\* before: the file when the run began;  pre: the in-memory collection when the
\* handler began;  sel: position in pre of the client the handler resolved;
\* ci, ti: position in pre of the client, and in its list of the task or note,
\* whose button the user clicked;  arg: the submitted input;  day: the date
MkLast(op, status, before, pre, sel, ci, ti, arg) ==
    [op |-> op, status |-> status, before |-> before, pre |-> pre,
     sel |-> sel, ci |-> ci, ti |-> ti, arg |-> arg, day |-> today]

\* How open(DB_FILE, "w") followed by json.dump can end.
WriteOutcomes == IF faults THEN {"ok", "open_fails", "dump_fails"} ELSE {"ok"}

\* The file after save_data({"clients": cs}) ending as w.  open(..., "w")
\* truncates the file before anything is written.
Persist(cs, w) ==
    CASE w = "ok" -> Saved(cs)
      [] w = "open_fails" -> store
      [] w = "dump_fails" -> MkDoc("invalid", <<>>)

Outcome(w) == IF w = "ok" THEN "done" ELSE "failed"

InitCommon ==
    /\ store \in InitialDocs
    /\ today = 1
    /\ confirm_clear_tasks = FALSE
    /\ confirm_reset = FALSE
    /\ clients = <<>>
    /\ last = MkLast("start", "none", store, <<>>, 0, 0, 0, 0)
    /\ retired = {}
    /\ steps = 0

Init == InitCommon /\ faults = FALSE

InitIO == InitCommon /\ faults \in BOOLEAN

\* line 66
Loaded == load_data(store).clients

\* lines 65-81: the healed collection of this run, for the tokens m
Mem(m) == HealAll(load_data(store).clients, m, today)

\* lines 158-166: clients is rebound to the sorted list
View(m, sort_by) == SortClients(Mem(m), sort_by)

\* the sorted lists the run can work on: one per token draw and sort key
Views == {View(m, sort_by) : m \in Mints(Loaded), sort_by \in SortKeys}


Step == /\ steps' = steps + 1
        /\ UNCHANGED <<today, faults>>

KeepFlags == UNCHANGED <<confirm_clear_tasks, confirm_reset>>

IdsOf(cs) == {cs[i].id : i \in 1..Len(cs)}

\* ------------------------------------------------------- sidebar: add
\* line 99
AddValid(f) == f.name # <<>> /\ f.phone # "" /\ f.email # ""

\* lines 100-113
NewClient(f, id, day) ==
    MkClient(id, f.name, f.phone, f.email, f.status, day, f.value, f.source,
             f.follow_up_date, f.tags, <<>>, <<>>, {})

\* line 114
AppendClient(cs, c) == Append(cs, c)

AddClient ==
    /\ steps < MaxSteps
    /\ Starts(store)
    /\ \E m \in Mints(Loaded), f \in AddForms, id \in Ids, w \in WriteOutcomes :
         LET mem == Mem(m)
             cs == AppendClient(mem, NewClient(f, id, today))
             arg == [form |-> f, id |-> id]
         IN  IF AddValid(f)
             THEN /\ Len(mem) < MaxClients
                  /\ clients' = cs
                  /\ store' = Persist(cs, w)
                  /\ last' = MkLast("addClient", Outcome(w), store, mem, 0, 0, 0, arg)
             ELSE /\ w = "ok"
                  /\ clients' = mem
                  /\ store' = store
                  /\ last' = MkLast("addClient", "rejected", store, mem, 0, 0, 0, arg)
    /\ KeepFlags
    /\ UNCHANGED retired
    /\ Step

\* A run without a handler: a widget changed, the page was reloaded.
Refresh ==
    /\ steps < MaxSteps
    /\ Starts(store)
    /\ \E view \in Views :
         /\ clients' = view
         /\ last' = MkLast("refresh", "none", store, view, 0, 0, 0, 0)
    /\ store' = store
    /\ KeepFlags
    /\ UNCHANGED retired
    /\ Step

\* A run in which building the edit form of the selected client raises (the
\* index() lookups of lines 241 and 243, the options of line 244): the run
\* ends there, the later tabs are not rendered, nothing is saved.
EditFormRaises ==
    /\ steps < MaxSteps
    /\ Starts(store)
    /\ \E view \in Views :
         \E i \in 1..Len(view) :
            LET k == Selected(view, i)
            IN  /\ k # 0
                /\ ~EditFormRenders(view[k])
                /\ clients' = view
                /\ last' = MkLast("editFormRaises", "none", store, view, k, i, 0, 0)
    /\ store' = store
    /\ KeepFlags
    /\ UNCHANGED retired
    /\ Step

\* A run that ends in an exception before line 82: nothing is rendered.
Crash ==
    /\ steps < MaxSteps
    /\ ~Starts(store)
    /\ clients' = <<>>
    /\ last' = MkLast("crash", "none", store, <<>>, 0, 0, 0, 0)
    /\ store' = store
    /\ KeepFlags
    /\ UNCHANGED retired
    /\ Step

\* ------------------------------------------------- Clients tab: handlers
\* A variant of ApplyUpdate that also empties the client's tasks; a statement
\* about what an update leaves alone has to tell it from ApplyUpdate.
ApplyUpdateDroppingTasks(c, f) ==
    [c EXCEPT !.name = f.name, !.phone = f.phone, !.email = f.email,
              !.status = f.status, !.value = f.value, !.source = f.source,
              !.tags = f.tags, !.follow_up_date = f.follow_up_date,
              !.tasks = <<>>]

\* lines 251-258
ApplyUpdate(c, f) ==
    [c EXCEPT !.name = f.name, !.phone = f.phone, !.email = f.email,
              !.status = f.status, !.value = f.value, !.source = f.source,
              !.tags = f.tags, !.follow_up_date = f.follow_up_date]

UpdateClient ==
    /\ steps < MaxSteps
    /\ Starts(store)
    /\ \E view \in Views, w \in WriteOutcomes :
         \E i \in 1..Len(view), f \in UpdateForms :
               LET k == Selected(view, i)
                   cs == [view EXCEPT ![k] = ApplyUpdate(@, f)]
               IN  /\ k # 0
                   /\ EditFormRenders(view[k])
                   /\ clients' = cs
                   /\ store' = Persist(cs, w)
                   /\ last' = MkLast("updateClient", Outcome(w), store, view, k, i, 0, f)
    /\ KeepFlags
    /\ UNCHANGED retired
    /\ Step

\* line 268
DeleteById(cs, sid) == SelectSeq(cs, LAMBDA c : c.id # sid)

\* what the user may type into the confirmation box
ConfirmTexts == {NameA, NameB}

DeleteClient ==
    /\ steps < MaxSteps
    /\ Starts(store)
    /\ \E view \in Views, w \in WriteOutcomes :
         \E i \in 1..Len(view), confirm_delete \in ConfirmTexts :
               LET k == Selected(view, i)
                   sid == ExtractId(Label(view[i]))
                   cs == DeleteById(view, sid)
               IN  /\ k # 0
                   /\ EditFormRenders(view[k])
                   /\ IF confirm_delete = view[k].name
                      THEN /\ clients' = cs
                           /\ store' = Persist(cs, w)
                           /\ last' = MkLast("deleteClient", Outcome(w), store, view, k, i, 0, confirm_delete)
                           /\ retired' = (IF w = "ok" THEN retired \cup (IdsOf(view) \ IdsOf(cs)) ELSE retired)
                      ELSE /\ w = "ok"
                           /\ clients' = view
                           /\ store' = store
                           /\ last' = MkLast("deleteClient", "rejected", store, view, k, i, 0, confirm_delete)
                           /\ retired' = retired
    /\ KeepFlags
    /\ Step

\* ----------------------------------------------------------- Tasks tab
\* lines 279-280: one entry per task, without the task's position
Row(c, t) ==
    [client_id |-> c.id, client_name |-> c.name, task |-> t.task,
     completed |-> t.completed, due_date |-> t.due_date, priority |-> t.priority]

RECURSIVE all_tasks(_)
all_tasks(cs) ==
    IF cs = <<>> THEN <<>>
    ELSE [t \in 1..Len(Head(cs).tasks) |-> Row(Head(cs), Head(cs).tasks[t])]
         \o all_tasks(Tail(cs))

TaskFilters == {"All Tasks", "Pending Tasks", "Completed Tasks", "Due Today"}

\* lines 299-306
filtered_tasks(cs, task_filter, day) ==
    CASE task_filter = "Pending Tasks" ->
            SelectSeq(all_tasks(cs), LAMBDA t : ~t.completed)
      [] task_filter = "Completed Tasks" ->
            SelectSeq(all_tasks(cs), LAMBDA t : t.completed)
      [] task_filter = "Due Today" ->
            SelectSeq(all_tasks(cs), LAMBDA t : t.due_date = day /\ ~t.completed)
      [] OTHER -> all_tasks(cs)

TaskSorts == {"Priority", "Due Date", "Client Name"}

\* line 310: priority_order.get(priority, 1)
PriorityRank(p) ==
    CASE p = "High" -> 0
      [] p = "Medium" -> 1
      [] p = "Low" -> 2
      [] OTHER -> 1

\* a's key is strictly ahead of b's key in sorted(filtered_tasks, key)
TaskKeyAhead(a, b, task_sort) ==
    CASE task_sort = "Priority" -> PriorityRank(a.priority) < PriorityRank(b.priority)
      [] task_sort = "Due Date" -> a.due_date < b.due_date
      [] OTHER -> StrLess(a.client_name, b.client_name)

\* lines 308-315: the position in rows of the entry shown at each position;
\* sorted() is stable
TaskOrder(rows, task_sort) ==
    LET Ahead(j, i) == \/ TaskKeyAhead(rows[j], rows[i], task_sort)
                       \/ (~TaskKeyAhead(rows[i], rows[j], task_sort) /\ j < i)
        Rank(i) == 1 + Cardinality({j \in 1..Len(rows) : Ahead(j, i)})
    IN  [k \in 1..Len(rows) |-> CHOOSE i \in 1..Len(rows) : Rank(i) = k]

sorted_tasks(rows, task_sort) ==
    [k \in 1..Len(rows) |-> rows[TaskOrder(rows, task_sort)[k]]]

\* lines 330 and 348: the client of an entry is looked up by id
TaskClient(cs, row) == FirstIndex({pos \in 1..Len(cs) : cs[pos].id = row.client_id})

\* lines 332 and 350: the task of an entry is looked up by its description
TaskIdx(c, row) == FirstIndex({pos \in 1..Len(c.tasks) : c.tasks[pos].task = row.task})

\* lines 335-342: Mark Incomplete on a completed entry, Mark Complete otherwise
MarkTask(cs, row) ==
    LET k == TaskClient(cs, row)
        x == TaskIdx(cs[k], row)
    IN  [cs EXCEPT ![k].tasks[x].completed = ~row.completed]

\* line 352
PopTask(cs, row) ==
    LET k == TaskClient(cs, row)
        x == TaskIdx(cs[k], row)
    IN  [cs EXCEPT ![k].tasks = RemoveAt(@, x)]

\* The button of the entry made from task ti of client ci is clicked.
SetTaskCompleted ==
    /\ steps < MaxSteps
    /\ Starts(store)
    /\ \E view \in Views, w \in WriteOutcomes :
         /\ ClientsTabPasses(view)
         /\ \E ci \in 1..Len(view) : \E ti \in 1..Len(view[ci].tasks) :
                  LET row == Row(view[ci], view[ci].tasks[ti])
                      k == TaskClient(view, row)
                      cs == MarkTask(view, row)
                  IN  /\ TaskIdx(view[k], row) # 0
                      /\ clients' = cs
                      /\ store' = Persist(cs, w)
                      /\ last' = MkLast("setTaskCompleted", Outcome(w), store, view, k, ci, ti, ~row.completed)
    /\ KeepFlags
    /\ UNCHANGED retired
    /\ Step

DeleteTask ==
    /\ steps < MaxSteps
    /\ Starts(store)
    /\ \E view \in Views, w \in WriteOutcomes :
         /\ ClientsTabPasses(view)
         /\ \E ci \in 1..Len(view) : \E ti \in 1..Len(view[ci].tasks) :
                  LET row == Row(view[ci], view[ci].tasks[ti])
                      k == TaskClient(view, row)
                      cs == PopTask(view, row)
                  IN  /\ TaskIdx(view[k], row) # 0
                      /\ clients' = cs
                      /\ store' = Persist(cs, w)
                      /\ last' = MkLast("deleteTask", Outcome(w), store, view, k, ci, ti, 0)
    /\ KeepFlags
    /\ UNCHANGED retired
    /\ Step

\* lines 375-381
NewTask(f, day) == MkTask(f.task, FALSE, f.priority, f.due_date, day)

\* line 386
AppendTask(c, t) == [c EXCEPT !.tasks = Append(@, t)]

AddTask ==
    /\ steps < MaxSteps
    /\ Starts(store)
    /\ \E view \in Views, w \in WriteOutcomes :
         /\ ClientsTabPasses(view)
         /\ \E i \in 1..Len(view), f \in TaskForms :
                  LET k == Selected(view, i)
                      cs == [view EXCEPT ![k] = AppendTask(@, NewTask(f, today))]
                  IN  IF f.task # "" /\ k # 0
                      THEN /\ Len(view[k].tasks) < MaxTasks
                           /\ clients' = cs
                           /\ store' = Persist(cs, w)
                           /\ last' = MkLast("addTask", Outcome(w), store, view, k, i, 0, f)
                      ELSE /\ w = "ok"
                           /\ clients' = view
                           /\ store' = store
                           /\ last' = MkLast("addTask", "rejected", store, view, k, i, 0, f)
    /\ KeepFlags
    /\ UNCHANGED retired
    /\ Step

\* ----------------------------------------------------------- Notes tab
\* A variant of InsertNote that puts the note last; a statement about the order
\* of the notes has to tell it from InsertNote.
InsertNoteLast(c, n) == [c EXCEPT !.notes = @ \o <<n>>]

\* lines 412-418
InsertNote(c, n) == [c EXCEPT !.notes = <<n>> \o @]

\* line 432
PopNote(c, idx) == [c EXCEPT !.notes = RemoveAt(@, idx)]

AddNote ==
    /\ steps < MaxSteps
    /\ Starts(store)
    /\ \E view \in Views, w \in WriteOutcomes :
         /\ ClientsTabPasses(view)
         /\ \E i \in 1..Len(view), note_text \in NoteTexts, id \in Ids :
                  LET k == Selected(view, i)
                      n == MkNote(note_text, today, id)
                      cs == [view EXCEPT ![k] = InsertNote(@, n)]
                  IN  /\ k # 0
                      /\ IF note_text # ""
                         THEN /\ Len(view[k].notes) < MaxNotes
                              /\ clients' = cs
                              /\ store' = Persist(cs, w)
                              /\ last' = MkLast("addNote", Outcome(w), store, view, k, i, 0, n)
                         ELSE /\ w = "ok"
                              /\ id = <<"7">>
                              /\ clients' = view
                              /\ store' = store
                              /\ last' = MkLast("addNote", "rejected", store, view, k, i, 0, n)
    /\ KeepFlags
    /\ UNCHANGED retired
    /\ Step

DeleteNote ==
    /\ steps < MaxSteps
    /\ Starts(store)
    /\ \E view \in Views, w \in WriteOutcomes :
         /\ ClientsTabPasses(view)
         /\ \E i \in 1..Len(view) :
                  LET k == Selected(view, i)
                  IN  /\ k # 0
                      /\ \E idx \in 1..Len(view[k].notes) :
                           LET cs == [view EXCEPT ![k] = PopNote(@, idx)]
                           IN  /\ clients' = cs
                               /\ store' = Persist(cs, w)
                               /\ last' = MkLast("deleteNote", Outcome(w), store, view, k, i, idx, 0)
    /\ KeepFlags
    /\ UNCHANGED retired
    /\ Step

\* -------------------------------------------------------- Settings tab
\* lines 589-599: the uploaded text u; every exception is caught and shown
Restore ==
    /\ steps < MaxSteps
    /\ Starts(store)
    /\ \E view \in Views, w \in WriteOutcomes, u \in UploadDocs :
         /\ ClientsTabPasses(view)
         /\ clients' = view
             /\ IF u.kind = "invalid" \/ save_data(u).raised
                THEN /\ w = "ok"
                     /\ store' = store
                     /\ last' = MkLast("restore", "rejected", store, view, 0, 0, 0, u)
                ELSE /\ store' = (IF w = "ok" THEN save_data(u).file ELSE Persist(view, w))
                     /\ last' = MkLast("restore", Outcome(w), store, view, 0, 0, 0, u)
    /\ KeepFlags
    /\ UNCHANGED retired
    /\ Step

\* lines 620-621
ClearTasks(cs) == [i \in 1..Len(cs) |-> [cs[i] EXCEPT !.tasks = <<>>]]

\* A variant of ClearAllTasks that clears on every click, armed or not; a
\* statement about the confirmation has to tell it from ClearAllTasks.
ClearAllTasksAtOnce ==
    /\ steps < MaxSteps
    /\ Starts(store)
    /\ \E view \in Views, w \in WriteOutcomes :
         LET cs == ClearTasks(view)
         IN  /\ ClientsTabPasses(view)
             /\ clients' = cs
             /\ store' = Persist(cs, w)
             /\ confirm_clear_tasks' = (w # "ok")
             /\ last' = MkLast("clearAllTasks", Outcome(w), store, view, 0, 0, 0, 0)
    /\ UNCHANGED <<confirm_reset, retired>>
    /\ Step

\* lines 618-628
ClearAllTasks ==
    /\ steps < MaxSteps
    /\ Starts(store)
    /\ \E view \in Views, w \in WriteOutcomes :
         LET cs == ClearTasks(view)
         IN  /\ ClientsTabPasses(view)
             /\ IF confirm_clear_tasks
                THEN /\ clients' = cs
                     /\ store' = Persist(cs, w)
                     /\ confirm_clear_tasks' = (w # "ok")
                     /\ last' = MkLast("clearAllTasks", Outcome(w), store, view, 0, 0, 0, 0)
                ELSE /\ w = "ok"
                     /\ clients' = view
                     /\ store' = store
                     /\ confirm_clear_tasks' = TRUE
                     /\ last' = MkLast("clearAllTasks", "rejected", store, view, 0, 0, 0, 0)
    /\ UNCHANGED <<confirm_reset, retired>>
    /\ Step

\* lines 631-639
ResetCRM ==
    /\ steps < MaxSteps
    /\ Starts(store)
    /\ \E view \in Views, w \in WriteOutcomes :
         /\ ClientsTabPasses(view)
         /\ clients' = view
             /\ IF confirm_reset
                THEN /\ store' = Persist(<<>>, w)
                     /\ confirm_reset' = (w # "ok")
                     /\ last' = MkLast("reset", Outcome(w), store, view, 0, 0, 0, 0)
                     /\ retired' = (IF w = "ok" THEN retired \cup IdsOf(view) ELSE retired)
                ELSE /\ w = "ok"
                     /\ store' = store
                     /\ confirm_reset' = TRUE
                     /\ last' = MkLast("reset", "rejected", store, view, 0, 0, 0, 0)
                     /\ retired' = retired
    /\ UNCHANGED confirm_clear_tasks
    /\ Step

\* datetime.now() moves on to the next day between two runs.
Tick ==
    /\ steps < MaxSteps
    /\ today < MaxDay
    /\ today' = today + 1
    /\ steps' = steps + 1
    /\ UNCHANGED <<store, confirm_clear_tasks, confirm_reset, clients, last, retired, faults>>

Next ==
    \/ AddClient
    \/ Refresh
    \/ Crash
    \/ EditFormRaises
    \/ UpdateClient
    \/ DeleteClient
    \/ SetTaskCompleted
    \/ DeleteTask
    \/ AddTask
    \/ AddNote
    \/ DeleteNote
    \/ Restore
    \/ ClearAllTasks
    \/ ResetCRM
    \/ Tick

\* the program on a disk that takes every write
Spec == Init /\ [][Next]_vars

\* the program on a disk where a write may fail
SpecIO == InitIO /\ [][Next]_vars

\* ====================================================================
\* Claims
\* ====================================================================
Ran(op) == last.op = op
Done(op) == last.op = op /\ last.status = "done"

\* C1: deleteClient with a confirmation text that differs from the target
\* client's name changes neither the collection nor the file; with the exact
\* name it removes exactly that client (with its tasks and notes), leaves
\* every other client as it was, and the result is what the file holds.
C1_DeleteRemovesExactlyTheTarget ==
    Ran("deleteClient") /\ last.status # "failed" =>
        IF last.arg # last.pre[last.sel].name
        THEN clients = last.pre /\ store = last.before
        ELSE clients = RemoveAt(last.pre, last.sel) /\ store = Saved(clients)

\* C2: each logical operation either succeeds and is persisted, or fails and
\* leaves the in-memory collection and the file as they were, also when the
\* write to the file fails.
LogicalOps ==
    {"addClient", "updateClient", "deleteClient", "addTask", "setTaskCompleted",
     "deleteTask", "addNote", "deleteNote", "clearAllTasks"}

C2_AllOrNothing ==
    last.op \in LogicalOps =>
        \/ last.status = "done" /\ store = Saved(clients)
        \/ last.status # "done" /\ clients = last.pre /\ store = last.before

\* C3: every client of the collection has a non-empty id, no two clients share
\* an id, and a new client never gets the id of a client deleted before.
C3_IdsUniqueNeverReused ==
    /\ \A i \in 1..Len(clients) : clients[i].id # <<>>
    /\ \A i, j \in 1..Len(clients) : i # j => clients[i].id # clients[j].id
    /\ Done("addClient") => last.arg.id \notin retired

DistinctIds(cs) == \A i, j \in 1..Len(cs) : i # j => cs[i].id # cs[j].id

\* C4: setTaskCompleted and deleteTask act on the task at the clicked position
\* of the clicked client and on nothing else, also when tasks of that client
\* share a description.  (Stated for collections whose ids are distinct, so
\* that the client of the clicked entry is not in question.)
C4_TaskOpsActOnThePosition ==
    DistinctIds(last.pre) =>
        /\ Done("setTaskCompleted") =>
              clients = [last.pre EXCEPT ![last.ci].tasks[last.ti].completed = last.arg]
        /\ Done("deleteTask") =>
              clients = [last.pre EXCEPT ![last.ci].tasks = RemoveAt(@, last.ti)]

\* C5: whatever the file holds, load does not fail and yields a document whose
\* clients is a sequence; a missing or malformed file yields no clients.
C5_LoadYieldsAClientSequence ==
    LET l == load_data(store)
    IN  /\ ~l.raised
        /\ l.dict
        /\ l.seq
        /\ store.kind \in {"absent", "invalid", "object"} => l.clients = <<>>

\* C6: addNote puts the new note at the head of the notes of the client it
\* resolves, above the notes that were there, in their order; deleteNote takes
\* out the note at the clicked position and keeps the order of the others; so
\* the notes of every client stay newest first.
NewestFirst(c) ==
    \A i, j \in 1..Len(c.notes) : i < j => c.notes[i].date >= c.notes[j].date

C6_NotesNewestFirst ==
    /\ Done("addNote") =>
          /\ clients[last.sel].notes = <<last.arg>> \o last.pre[last.sel].notes
          /\ clients = [last.pre EXCEPT ![last.sel].notes = clients[last.sel].notes]
    /\ Done("deleteNote") =>
          clients = [last.pre EXCEPT ![last.sel].notes = RemoveAt(@, last.ti)]
    /\ \A i \in 1..Len(clients) : NewestFirst(clients[i])

\* a note B was added above a different, older note A
C6_Witness ==
    /\ Done("addNote")
    /\ Len(clients[last.sel].notes) = 2
    /\ clients[last.sel].notes[1] = last.arg
    /\ clients[last.sel].notes[2] # last.arg

\* C7: the healing loop as the claim has it.  h is r healed on the given day:
\* a missing key gets its default, a key that is present keeps its value.
\* With emptyIdCounts the id is also replaced when it is present but empty.
HealedAs(r, h, day, emptyIdCounts) ==
    /\ h.absent = {}
    /\ h.date_added = (IF "date_added" \in r.absent THEN day ELSE r.date_added)
    /\ h.value = (IF "value" \in r.absent THEN 0 ELSE r.value)
    /\ h.source = (IF "source" \in r.absent THEN "Direct" ELSE r.source)
    /\ h.tags = (IF "tags" \in r.absent THEN {} ELSE r.tags)
    /\ h.follow_up_date = (IF "follow_up_date" \in r.absent THEN 0 ELSE r.follow_up_date)
    /\ IF "id" \in r.absent \/ (emptyIdCounts /\ r.id = <<>>)
       THEN h.id \in Ids
       ELSE h.id = r.id
    /\ h.name = r.name /\ h.phone = r.phone /\ h.email = r.email
    /\ h.status = r.status /\ h.tasks = r.tasks /\ h.notes = r.notes

Perms(n) == {f \in [1..n -> 1..n] : \A i, j \in 1..n : i # j => f[i] # f[j]}

\* The collection a handler works on is the loaded one, healed (and sorted).
HandlerSeesHealed(emptyIdCounts) ==
    last.op \notin {"start", "crash"} =>
        LET raw == load_data(last.before).clients
        IN  /\ Len(last.pre) = Len(raw)
            /\ \E f \in Perms(Len(raw)) :
                 \A i \in 1..Len(raw) :
                    HealedAs(raw[f[i]], last.pre[i], last.day, emptyIdCounts)

\* C7 as claimed: every key that was present is left unchanged by healing.
C7_HealKeepsEveryPresentKey == HandlerSeesHealed(FALSE)

\* C7 as amended: an id that is present but empty is replaced as well.
C7_HealKeepsPresentKeysButEmptyId == HandlerSeesHealed(TRUE)

\* a run on a file with a client whose id is empty and that lacks other keys
C7_Witness ==
    /\ last.op = "refresh"
    /\ \E i \in 1..Len(load_data(last.before).clients) :
          LET r == load_data(last.before).clients[i]
          IN  r.id = <<>> /\ "id" \notin r.absent /\ r.absent # {}

\* C8: addClient with an empty name, phone or email changes nothing; otherwise
\* one client with a freshly minted id and no tasks and notes is appended and
\* persisted, and looking its id up yields the client just added.
C8_AddClientThenFind ==
    Ran("addClient") /\ last.status # "failed" =>
        LET f == last.arg.form
            new == NewClient(f, last.arg.id, last.day)
        IN  IF f.name = <<>> \/ f.phone = "" \/ f.email = ""
            THEN clients = last.pre /\ store = last.before
            ELSE /\ clients = last.pre \o <<new>>
                 /\ new.tasks = <<>> /\ new.notes = <<>>
                 /\ store = Saved(clients)
                 /\ clients[FirstIndex({pos \in 1..Len(clients) : clients[pos].id = new.id})] = new

\* C9: updateClient overwrites the fields of the form in the client it resolves
\* and leaves that client's id, date_added, tasks and notes and every other
\* client as they were; an id and a date_added that the file holds come out of
\* load and healing unchanged, and no update, task or note handler changes them.
KeepingOps ==
    {"refresh", "updateClient", "addTask", "setTaskCompleted", "deleteTask",
     "addNote", "deleteNote"}

C9_IdAndDateAddedStay ==
    /\ Done("updateClient") =>
          LET k == last.sel
              f == last.arg
              old == last.pre[k]
              new == clients[k]
          IN  /\ new.id = old.id /\ new.date_added = old.date_added
              /\ new.tasks = old.tasks /\ new.notes = old.notes
              /\ new.name = f.name /\ new.phone = f.phone /\ new.email = f.email
              /\ new.status = f.status /\ new.value = f.value /\ new.source = f.source
              /\ new.tags = f.tags /\ new.follow_up_date = f.follow_up_date
              /\ Len(clients) = Len(last.pre)
              /\ \A j \in 1..Len(clients) : j # k => clients[j] = last.pre[j]
              /\ store = Saved(clients)
    /\ last.op \in KeepingOps /\ last.status # "failed" =>
          LET raw == load_data(last.before).clients
          IN  /\ Len(last.pre) = Len(raw)
              /\ \E f \in Perms(Len(raw)) :
                   \A i \in 1..Len(raw) :
                      /\ HealedAs(raw[f[i]], last.pre[i], last.day, TRUE)
                      /\ ~NeedsId(raw[f[i]]) => last.pre[i].id = raw[f[i]].id
                      /\ "date_added" \notin raw[f[i]].absent =>
                            last.pre[i].date_added = raw[f[i]].date_added
              /\ Len(clients) = Len(last.pre)
              /\ \A j \in 1..Len(clients) :
                    /\ clients[j].id = last.pre[j].id
                    /\ clients[j].date_added = last.pre[j].date_added
              /\ last.status = "done" => store = Saved(clients)

\* an update of one of two clients, the updated one with tasks, on a later day
\* than the one it was added on
C9_Witness ==
    /\ Done("updateClient")
    /\ Len(last.pre) = 2
    /\ last.pre[last.sel].tasks # <<>>
    /\ last.pre[last.sel].date_added < last.day

\* C10: a task just added is pending and listed under All and Pending; a task
\* just marked complete is listed under Completed and not under Pending;
\* Pending and Completed partition All; Due Today lists exactly the pending
\* tasks due today.  (The marking is stated for collections whose ids are
\* distinct.)
TasksOf(cs) == {<<i, t>> \in (1..Len(cs)) \X (1..MaxTasks + 1) : t <= Len(cs[i].tasks)}

C10_TaskListsFollowTheTasks ==
    LET all == filtered_tasks(clients, "All Tasks", today)
        pending == filtered_tasks(clients, "Pending Tasks", today)
        completed == filtered_tasks(clients, "Completed Tasks", today)
        due == filtered_tasks(clients, "Due Today", today)
        RowOf(i, t) == Row(clients[i], clients[i].tasks[t])
    IN  /\ Done("addTask") =>
              LET t == Len(clients[last.sel].tasks)
              IN  /\ ~clients[last.sel].tasks[t].completed
                  /\ RowOf(last.sel, t) \in Range(all)
                  /\ RowOf(last.sel, t) \in Range(pending)
        /\ Done("setTaskCompleted") /\ last.arg = TRUE /\ DistinctIds(last.pre) =>
              /\ RowOf(last.ci, last.ti).completed
              /\ RowOf(last.ci, last.ti) \in Range(completed)
              /\ RowOf(last.ci, last.ti) \notin Range(pending)
        /\ Len(all) = Len(pending) + Len(completed)
        /\ Range(all) = Range(pending) \cup Range(completed)
        /\ Range(pending) \cap Range(completed) = {}
        /\ Len(all) = Cardinality(TasksOf(clients))
        /\ Range(due) = {RowOf(p[1], p[2]) : p \in
                           {q \in TasksOf(clients) :
                               /\ clients[q[1]].tasks[q[2]].due_date = today
                               /\ ~clients[q[1]].tasks[q[2]].completed}}

\* C11: a document whose clients carry a status, source or tag outside the
\* options makes no run fail: no run ends in an exception of the edit form,
\* and the values are in memory, and in the file after a save, as they were
\* loaded.
Unrecognized(c) ==
    \/ c.status \notin StatusOptions
    \/ "source" \notin c.absent /\ c.source \notin SourceOptions
    \/ "tags" \notin c.absent /\ ~(c.tags \subseteq TagOptions)

C11_UnknownValuesTolerated ==
    LET l == load_data(last.before)
        raw == l.clients
    IN  (Starts(last.before) /\ \E i \in 1..Len(raw) : Unrecognized(raw[i])) =>
            /\ ~Ran("editFormRaises")
            /\ last.op \in KeepingOps /\ last.status # "failed" =>
                  /\ Len(last.pre) = Len(raw)
                  /\ \E f \in Perms(Len(raw)) :
                        \A i \in 1..Len(raw) : HealedAs(raw[f[i]], last.pre[i], last.day, TRUE)
                  /\ last.status = "done" => store = Saved(clients)

\* C12: the task list sorted by Due Date is in ascending order of due_date
\* with every task without a due_date after all the tasks that have one;
\* sorted by Priority it has High before Medium before Low, tasks of the same
\* priority in the order they had before sorting.  (Stated in the runs that
\* render the Tasks tab, for every view the user can pick.)
TasksTabOps ==
    {"setTaskCompleted", "deleteTask", "addTask", "addNote", "deleteNote",
     "restore", "clearAllTasks", "reset"}

HasDue(row) == row.due_date # 0

DueDateOrdered(rows) ==
    LET out == sorted_tasks(rows, "Due Date")
    IN  /\ Len(out) = Len(rows)
        /\ \E f \in Perms(Len(rows)) : \A k \in 1..Len(rows) : out[k] = rows[f[k]]
        /\ \A i, j \in 1..Len(out) :
              i < j =>
                 /\ HasDue(out[i]) /\ HasDue(out[j]) => out[i].due_date <= out[j].due_date
                 /\ ~(~HasDue(out[i]) /\ HasDue(out[j]))

PriorityOrdered(rows) ==
    LET out == sorted_tasks(rows, "Priority")
    IN  /\ Len(out) = Len(rows)
        /\ \E f \in Perms(Len(rows)) :
              /\ \A k \in 1..Len(rows) : out[k] = rows[f[k]]
              /\ \A i, j \in 1..Len(rows) :
                    i < j /\ out[i].priority = out[j].priority => f[i] < f[j]
        /\ \A i, j \in 1..Len(out) :
              i < j => PriorityRank(out[i].priority) <= PriorityRank(out[j].priority)

C12_TaskSortOrders ==
    last.op \in TasksTabOps =>
        \A task_filter \in TaskFilters :
            LET rows == filtered_tasks(last.pre, task_filter, last.day)
            IN  DueDateOrdered(rows) /\ PriorityOrdered(rows)

\* C13: whatever search query, status filter, tag filter and sort key are
\* active, a save made by updateClient, addTask, setTaskCompleted, deleteTask,
\* addNote, deleteNote or clearAllTasks writes as many clients as were loaded,
\* under the same ids (a record loaded without an id under the id minted for
\* it); the clients that the filters hide from the table are in the file too.
KeepAllOps ==
    {"updateClient", "addTask", "setTaskCompleted", "deleteTask", "addNote",
     "deleteNote", "clearAllTasks"}

C13_ViewsLoseNoClient ==
    last.op \in KeepAllOps /\ last.status = "done" =>
        LET raw == load_data(last.before).clients
            out == load_data(store).clients
        IN  /\ store.kind = "clients"
            /\ Len(out) = Len(raw)
            /\ \E f \in Perms(Len(raw)) :
                  \A i \in 1..Len(raw) :
                     IF NeedsId(raw[f[i]]) THEN out[i].id # <<>>
                                           ELSE out[i].id = raw[f[i]].id
            /\ \A q \in SearchQueries, fs \in StatusFilters, ft \in TagFilters :
                  LET shown == filtered_clients(last.pre, q, fs, ft)
                  IN  \A i \in 1..Len(last.pre) :
                         last.pre[i] \notin Range(shown) =>
                             \E j \in 1..Len(out) : out[j].id = last.pre[i].id

\* an update saved while the sort changed the order of the two loaded clients
\* and the filters hide one of them
C13_Witness ==
    /\ Done("updateClient")
    /\ Len(last.pre) = 2
    /\ last.pre # load_data(last.before).clients
    /\ Len(filtered_clients(last.pre, <<"a">>, {"Lead"}, {})) = 1

\* C14: whatever the name of a client, the id taken from its entry "name (id)"
\* in a client selector is its id and the lookup yields that client, so that
\* updateClient, deleteClient, addTask and addNote act on the client whose
\* entry was selected and never on no client or on another one.  (Stated for
\* collections whose ids are distinct, in the runs that render the selectors.)
SelectorOps == {"updateClient", "deleteClient", "addTask", "addNote"}

C14_SelectorResolvesTheEntry ==
    last.op \notin {"start", "crash", "addClient"} /\ DistinctIds(last.pre) =>
        /\ \A i \in 1..Len(last.pre) :
              /\ ExtractId(Label(last.pre[i])) = last.pre[i].id
              /\ Selected(last.pre, i) = i
        /\ last.op \in SelectorOps => last.sel = last.ci

\* C15: a click on Clear All Tasks (resp. Reset CRM) while the button's flag
\* is not set changes neither the collection nor the file and sets that flag
\* only; a click while the flag is set empties every client's task list
\* (resp. writes an empty collection), persists and clears the flag; the flag
\* of a button is changed by no step but a click on that button.
Click(op) == steps' = steps + 1 /\ today' = today /\ last'.op = op

C15_ConfirmedClicksOnly ==
    [][/\ Click("clearAllTasks") =>
             /\ confirm_reset' = confirm_reset
             /\ IF confirm_clear_tasks
                THEN /\ last'.status = "done"
                     /\ Len(clients') = Len(last'.pre)
                     /\ \A i \in 1..Len(clients') :
                           clients'[i] = [last'.pre[i] EXCEPT !.tasks = <<>>]
                     /\ store' = Saved(clients')
                     /\ ~confirm_clear_tasks'
                ELSE /\ last'.status = "rejected"
                     /\ clients' = last'.pre
                     /\ store' = store
                     /\ confirm_clear_tasks'
       /\ Click("reset") =>
             /\ confirm_clear_tasks' = confirm_clear_tasks
             /\ IF confirm_reset
                THEN /\ last'.status = "done"
                     /\ store' = Saved(<<>>)
                     /\ load_data(store').clients = <<>>
                     /\ ~confirm_reset'
                ELSE /\ last'.status = "rejected"
                     /\ clients' = last'.pre
                     /\ store' = store
                     /\ confirm_reset'
       /\ ~Click("clearAllTasks") => confirm_clear_tasks' = confirm_clear_tasks
       /\ ~Click("reset") => confirm_reset' = confirm_reset
      ]_vars

\* the second click on Clear All Tasks has emptied task lists that held tasks
C15_Witness ==
    /\ Done("clearAllTasks")
    /\ \E i \in 1..Len(last.pre) : last.pre[i].tasks # <<>>
    /\ ~confirm_clear_tasks
====
